---- MODULE Spec2Model ----
(***************************************************************************)
(* The audio delivery pipeline of the Gameboy emulator front end: the      *)
(* AudioQueueProcessor worklet (bounded chunk queue, renderer, refill      *)
(* requests), the two message ports, and the producers on the main thread. *)
(*                                                                         *)
(* Two versions of the worklet are in the repository and both are          *)
(* modelled; channel_count tells which one runs:                           *)
(*   2  worklets/audio-queue-processor.js  (stereo, last_samples)          *)
(*   1  unnamed/part_000, first class       (mono, last_sample)            *)
(* Two versions of the main-thread side exist as well; producer tells      *)
(* which one runs:                                                         *)
(*   "push"  frontend/src/hooks/useAudio.ts  queueAudio, called once per   *)
(*           video frame; refill requests are only logged                  *)
(*   "pull"  unnamed/part_008 port.onmessage, one chunk per "get-audio"    *)
(***************************************************************************)
EXTENDS Integers, Sequences, FiniteSets, TLC

\* ---------------------------------------------------------------- constants
HighWater == 60
LowWater == 3

\* JavaScript values that are not samples.  Undefined is what an out-of-range
\* read of an array yields; a Float32Array stores it as NaN.
Undefined == -2
NaN == -1

\* ------------------------------------------------------------------- bounds
MaxSent == 3        \* chunks the producer posts during a run
MaxRenders == 3     \* render calls during a run
MaxBlockLen == 2    \* slots of an output block: 0..MaxBlockLen
MaxFrames == 2      \* frames of a chunk: 0..MaxFrames
Prefill == 59       \* chunks queued before the first render call (push only)
MaxInterleave == 3  \* frames of the stereo chunk of a scenario: 1..MaxInterleave
MaxCalls == 4       \* calls of save_ram and load_ram during a run
MaxRamLen == 1      \* bytes of a saved ram: 0..MaxRamLen

VARIABLES
    channel_count,       \* which worklet version runs (1 or 2 channels)
    producer,            \* which main-thread version runs
    current_buffer,      \* <<>> is null, <<chunk>> a chunk in progress
    current_buffer_idx,
    audio_queue,
    requested_frames,
    last_samples,        \* one entry per channel (last_sample when mono)
    toWorklet,           \* messages posted to the worklet, not yet handled
    toMain,              \* messages posted by the worklet, not yet handled
    output,              \* the block of the latest render call, per channel
    fill,                \* per slot of that block: "chunk" or "sustain"
    nsent,               \* history: chunks posted by the producer
    accepted,            \* history: samples of the chunks pushed on the queue
    written,             \* history: chunk-derived samples written, per slot
    prevReal,            \* history: lastReal before the latest render call
    lastReal,            \* history: latest chunk-derived sample per channel
    reqSent,             \* history: refill requests posted
    answered,            \* history: chunks posted in answer to a request
    reqSinceChunk,       \* history: requests posted since the last chunk
    renders,             \* history: render calls
    nhandled,            \* history: chunk messages handled by the worklet
    ev,                  \* history: the latest step
    gameboy,             \* useGameboy: TRUE once setGameboy(gameboy) has run
    saves,               \* the records of the object store 'saves'
    loaded,              \* the outcome of the latest load_ram
    pending,             \* calls whose request has not succeeded yet
    history,             \* history: the calls that have settled, in order
    joypad,              \* the state of joypadReducer
    latest               \* history: per input, the type of its latest action

vars == <<channel_count, producer, current_buffer, current_buffer_idx,
          audio_queue, requested_frames, last_samples, toWorklet, toMain,
          output, fill, nsent, accepted, written, prevReal, lastReal,
          reqSent, answered, reqSinceChunk, renders, nhandled, ev,
          gameboy, saves, loaded, pending, history, joypad, latest>>

\* The variables of the audio pipeline and those of the save database.
audioVars == <<channel_count, producer, current_buffer, current_buffer_idx,
               audio_queue, requested_frames, last_samples, toWorklet,
               toMain, output, fill, nsent, accepted, written, prevReal,
               lastReal, reqSent, answered, reqSinceChunk, renders,
               nhandled, gameboy>>
saveVars == <<saves, loaded, pending, history>>
joypadVars == <<joypad, latest>>

\* ------------------------------------------------------------------ helpers
\* The payload of a message posted without one: `payload: undefined`.
NoPayload == <<Undefined>>

\* The samples a payload holds.
Samples(payload) == IF payload = NoPayload THEN <<>> ELSE payload

RECURSIVE Concat(_)
Concat(chunks) ==
    IF chunks = <<>> THEN <<>>
    ELSE Samples(Head(chunks)) \o Concat(Tail(chunks))

\* The n-th chunk the producer makes: frames * channels interleaved samples,
\* every sample of the run distinct.
Chunk(n, frames, channels) ==
    [j \in 1..(frames * channels) |-> 10 * n + j]

\* buf[idx] of JavaScript (0-based): undefined outside the array.
At(buf, idx) ==
    IF idx >= 0 /\ idx < Len(buf) THEN buf[idx + 1] ELSE Undefined

\* Assignment to an element of a Float32Array.
StoreFloat32(v) == IF v = Undefined THEN NaN ELSE v

NoEvent == [op |-> "init", len |-> 0, request |-> FALSE, queue |-> FALSE,
            dropped |-> FALSE, mismatch |-> FALSE, returned |-> FALSE,
            posted |-> FALSE, after |-> "none", calls |-> <<>>]

\* ----------------------------------------------------------------- renderer
\* The renderer works on a record r: the fields of the processor that the
\* loop of process() touches, the output block being filled (channels) and
\* the histories written and lastReal.

\* `if (!this.current_buffer && this.audio_queue.length > 0)`: shift the head.
DequeueLeavesLast(r) ==
    IF r.current_buffer = <<>> /\ Len(r.audio_queue) > 1
    THEN [r EXCEPT !.current_buffer = IF Head(r.audio_queue) = NoPayload
                                      THEN <<>>
                                      ELSE <<Head(r.audio_queue)>>,
                   !.audio_queue = Tail(r.audio_queue)]
    ELSE r

Dequeue(r) ==
    IF r.current_buffer = <<>> /\ Len(r.audio_queue) > 0
    THEN [r EXCEPT !.current_buffer = IF Head(r.audio_queue) = NoPayload
                                      THEN <<>>
                                      ELSE <<Head(r.audio_queue)>>,
                   !.audio_queue = Tail(r.audio_queue)]
    ELSE r

\* `if (this.current_buffer_idx >= this.current_buffer.length)`: retire.
AdvanceLate(r, step) ==
    LET nidx == r.current_buffer_idx + step
        done == nidx > Len(r.current_buffer[1])
    IN  [r EXCEPT !.current_buffer = IF done THEN <<>> ELSE @,
                  !.current_buffer_idx = IF done THEN 0 ELSE nidx]

Advance(r, step) ==
    LET nidx == r.current_buffer_idx + step
        done == nidx >= Len(r.current_buffer[1])
    IN  [r EXCEPT !.current_buffer = IF done THEN <<>> ELSE @,
                  !.current_buffer_idx = IF done THEN 0 ELSE nidx]

\* One iteration of the loop of the stereo process().
SlotStereo(r0) ==
    LET r == Dequeue(r0) IN
    IF r.current_buffer = <<>>
    THEN [r EXCEPT
            !.channels = <<Append(@[1], StoreFloat32(r.last_samples[1])),
                           Append(@[2], StoreFloat32(r.last_samples[2]))>>,
            !.fill = Append(@, "sustain")]
    ELSE LET buf == r.current_buffer[1]
             left == StoreFloat32(At(buf, r.current_buffer_idx))
             right == StoreFloat32(At(buf, r.current_buffer_idx + 1))
         IN  [Advance(r, 2) EXCEPT
                !.channels = <<Append(@[1], left), Append(@[2], right)>>,
                !.fill = Append(@, "chunk"),
                !.written = @ \o <<left, right>>,
                !.lastReal = <<left, right>>]

\* One iteration of the loop of the mono process(): last_sample is set at
\* every chunk-derived slot.
SlotMonoSilence(r0) ==
    LET r == Dequeue(r0) IN
    IF r.current_buffer = <<>>
    THEN [r EXCEPT
            !.channels = <<Append(@[1], 0)>>,
            !.fill = Append(@, "sustain")]
    ELSE LET sample == At(r.current_buffer[1], r.current_buffer_idx)
         IN  [Advance(r, 1) EXCEPT
                !.last_samples = <<sample>>,
                !.channels = <<Append(@[1], StoreFloat32(sample))>>,
                !.fill = Append(@, "chunk"),
                !.written = Append(@, StoreFloat32(sample)),
                !.lastReal = <<StoreFloat32(sample)>>]

SlotMono(r0) ==
    LET r == Dequeue(r0) IN
    IF r.current_buffer = <<>>
    THEN [r EXCEPT
            !.channels = <<Append(@[1], StoreFloat32(r.last_samples[1]))>>,
            !.fill = Append(@, "sustain")]
    ELSE LET sample == At(r.current_buffer[1], r.current_buffer_idx)
         IN  [Advance(r, 1) EXCEPT
                !.last_samples = <<sample>>,
                !.channels = <<Append(@[1], StoreFloat32(sample))>>,
                !.fill = Append(@, "chunk"),
                !.written = Append(@, StoreFloat32(sample)),
                !.lastReal = <<StoreFloat32(sample)>>]

\* `for (let i = 0; i < length; i++)`
RECURSIVE LoopUntilEmpty(_, _, _)
LoopUntilEmpty(r, i, length) ==
    IF i >= length \/ (r.current_buffer = <<>> /\ r.audio_queue = <<>>)
    THEN r
    ELSE LoopUntilEmpty(IF Len(r.last_samples) = 2 THEN SlotStereo(r)
                        ELSE SlotMono(r),
                        i + 1, length)

RECURSIVE Loop(_, _, _)
Loop(r, i, length) ==
    IF i >= length THEN r
    ELSE Loop(IF Len(r.last_samples) = 2 THEN SlotStereo(r) ELSE SlotMono(r),
              i + 1, length)

\* `this.last_samples = [channels[0][length - 1], channels[1][length - 1]]`,
\* a statement of the stereo version only.
StoreLastSamples(r, length) ==
    IF Len(r.last_samples) = 2
    THEN [r EXCEPT !.last_samples = <<At(r.channels[1], length - 1),
                                      At(r.channels[2], length - 1)>>]
    ELSE r

\* The loop of process() and the statement after it, on a block of `length`
\* slots per channel.
Fill(r, length) ==
    StoreLastSamples(
        Loop([r EXCEPT !.channels = [c \in 1..Len(r.last_samples) |-> <<>>],
                       !.fill = <<>>],
             0, length),
        length)

\* `this.audio_queue.length < 3 && this.requested_frames === 0`
NeedsAudioNoLatch(queue, requested) == Len(queue) < LowWater

NeedsAudioWhenEmpty(queue, requested) == Len(queue) = 0 /\ requested = 0

NeedsAudioInclusive(queue, requested) ==
    Len(queue) <= LowWater /\ requested = 0

NeedsAudio(queue, requested) == Len(queue) < LowWater /\ requested = 0

\* The processor's fields as a record for Fill.
Renderer ==
    [current_buffer |-> current_buffer,
     current_buffer_idx |-> current_buffer_idx,
     audio_queue |-> audio_queue,
     last_samples |-> last_samples,
     channels |-> output,
     fill |-> fill,
     written |-> written,
     lastReal |-> lastReal]

\* ------------------------------------------------------------------ actions
\* `if (channels[0].length !== channels[1].length) throw`, a statement of
\* the stereo version only: the mono version reads output[0] alone.
CheckedLengthsNever(channels, len0, len1) == FALSE

CheckedLengths(channels, len0, len1) == channels = 2 /\ len0 # len1

\* process(inputs, outputs, parameters) on a block whose channels have len0
\* and len1 slots.
Process(len0, len1) ==
    /\ renders < MaxRenders
    /\ channel_count = 1 => len1 = len0
    /\ IF CheckedLengths(channel_count, len0, len1)
       THEN /\ ev' = [NoEvent EXCEPT !.op = "process", !.len = len0,
                                     !.mismatch = TRUE]
            /\ UNCHANGED <<current_buffer, current_buffer_idx, audio_queue,
                           last_samples, output, fill, written, lastReal,
                           prevReal, toMain, requested_frames, reqSent,
                           reqSinceChunk, renders>>
       ELSE
       LET length == len0
           r == Fill(Renderer, length)
           request == NeedsAudio(r.audio_queue, requested_frames)
       IN  /\ current_buffer' = r.current_buffer
           /\ current_buffer_idx' = r.current_buffer_idx
           /\ audio_queue' = r.audio_queue
           /\ last_samples' = r.last_samples
           /\ output' = r.channels
           /\ fill' = r.fill
           /\ written' = r.written
           /\ lastReal' = r.lastReal
           /\ prevReal' = lastReal
           /\ toMain' = IF request
                        THEN Append(toMain, [type |-> "get-audio"])
                        ELSE toMain
           /\ requested_frames' = IF request THEN requested_frames + 1
                                  ELSE requested_frames
           /\ reqSent' = IF request THEN reqSent + 1 ELSE reqSent
           /\ reqSinceChunk' = IF request THEN reqSinceChunk + 1
                               ELSE reqSinceChunk
           /\ ev' = [NoEvent EXCEPT !.op = "process", !.len = length,
                                    !.request = request,
                                    !.mismatch = len0 # len1,
                                    !.returned = TRUE]
           /\ renders' = renders + 1
    /\ UNCHANGED <<channel_count, producer, toWorklet, nsent, accepted,
                   answered, nhandled, gameboy>>
    /\ UNCHANGED saveVars
    /\ UNCHANGED joypadVars

\* The body of `if (e.data.type === 'queue')` in port.onmessage of the
\* worklet, on p = the processor's requested_frames and audio_queue.
HandleQueueUnbounded(p, payload) ==
    [requested_frames |-> IF p.requested_frames > 0
                          THEN p.requested_frames - 1
                          ELSE p.requested_frames,
     audio_queue |-> Append(p.audio_queue, payload)]

HandleQueueDropOldest(p, payload) ==
    [requested_frames |-> IF p.requested_frames > 0
                          THEN p.requested_frames - 1
                          ELSE p.requested_frames,
     audio_queue |-> IF Len(p.audio_queue) < HighWater
                     THEN Append(p.audio_queue, payload)
                     ELSE Append(Tail(p.audio_queue), payload)]

HandleQueueNoFloor(p, payload) ==
    [requested_frames |-> p.requested_frames - 1,
     audio_queue |-> IF Len(p.audio_queue) < HighWater
                     THEN Append(p.audio_queue, payload)
                     ELSE p.audio_queue]

HandleQueueNoDecrement(p, payload) ==
    [requested_frames |-> p.requested_frames,
     audio_queue |-> IF Len(p.audio_queue) < HighWater
                     THEN Append(p.audio_queue, payload)
                     ELSE p.audio_queue]

HandleQueue(p, payload) ==
    [requested_frames |-> IF p.requested_frames > 0
                          THEN p.requested_frames - 1
                          ELSE p.requested_frames,
     audio_queue |-> IF Len(p.audio_queue) < HighWater
                     THEN Append(p.audio_queue, payload)
                     ELSE p.audio_queue]

\* port.onmessage of the worklet, on the oldest message posted to it.
OnMessage ==
    /\ toWorklet # <<>>
    /\ LET data == Head(toWorklet)
           isQueue == data.type = "queue"
           p == [requested_frames |-> requested_frames,
                 audio_queue |-> audio_queue]
           q == IF isQueue THEN HandleQueue(p, data.payload) ELSE p
           pushed == Len(q.audio_queue) > Len(audio_queue)
       IN  /\ requested_frames' = q.requested_frames
           /\ audio_queue' = q.audio_queue
           /\ accepted' = IF pushed THEN accepted \o Samples(data.payload)
                          ELSE accepted
           /\ nhandled' = IF isQueue THEN nhandled + 1 ELSE nhandled
           /\ reqSinceChunk' = IF isQueue THEN 0 ELSE reqSinceChunk
           /\ ev' = [NoEvent EXCEPT !.op = "onmessage", !.queue = isQueue,
                                    !.dropped = isQueue /\ ~pushed]
    /\ toWorklet' = Tail(toWorklet)
    /\ UNCHANGED <<channel_count, producer, current_buffer,
                   current_buffer_idx, last_samples, toMain, output, fill,
                   nsent, written, prevReal, lastReal, reqSent, answered,
                   renders, gameboy>>
    /\ UNCHANGED saveVars
    /\ UNCHANGED joypadVars

\* queueAudio(audio) of the push version: the frame loop posts the audio of
\* one video frame, asked for or not.
QueueAudio(frames) ==
    /\ producer = "push"
    /\ nsent < MaxSent
    /\ toWorklet' = Append(toWorklet,
            [type |-> "queue",
             payload |-> Chunk(Prefill + nsent + 1, frames, channel_count)])
    /\ nsent' = nsent + 1
    /\ ev' = [NoEvent EXCEPT !.op = "queueAudio", !.len = frames]
    /\ UNCHANGED <<channel_count, producer, current_buffer,
                   current_buffer_idx, audio_queue, requested_frames,
                   last_samples, toMain, output, fill, accepted, written,
                   prevReal, lastReal, reqSent, answered, reqSinceChunk,
                   renders, nhandled, gameboy>>
    /\ UNCHANGED saveVars
    /\ UNCHANGED joypadVars

\* node.port.onmessage of the push version: `(e) => console.log(e)`.
MainLog ==
    /\ producer = "push"
    /\ toMain # <<>>
    /\ toMain' = Tail(toMain)
    /\ ev' = [NoEvent EXCEPT !.op = "log"]
    /\ UNCHANGED <<channel_count, producer, current_buffer,
                   current_buffer_idx, audio_queue, requested_frames,
                   last_samples, toWorklet, output, fill, nsent, accepted,
                   written, prevReal, lastReal, reqSent, answered,
                   reqSinceChunk, renders, nhandled, gameboy>>
    /\ UNCHANGED saveVars
    /\ UNCHANGED joypadVars

\* What the pull version posts for a "get-audio" message: the chunk that
\* getNextFrameAudio returns; nothing when it throws 'Gameboy is undefined'.
ReplyAlways(defined, chunk) == <<[type |-> "queue", payload |-> chunk]>>

ReplyTwice(defined, chunk) ==
    IF defined
    THEN <<[type |-> "queue", payload |-> chunk],
           [type |-> "queue", payload |-> chunk]>>
    ELSE <<>>

Reply(defined, chunk) ==
    IF defined THEN <<[type |-> "queue", payload |-> chunk]>> ELSE <<>>

\* node.port.onmessage of the pull version: one chunk per "get-audio".
MainOnMessage(frames) ==
    /\ producer = "pull"
    /\ toMain # <<>>
    /\ nsent < MaxSent
    /\ LET posts == IF Head(toMain).type = "get-audio"
                    THEN Reply(gameboy, Chunk(Prefill + nsent + 1, frames,
                                              channel_count))
                    ELSE <<>>
       IN
       /\ toWorklet' = toWorklet \o posts
       /\ nsent' = nsent + Len(posts)
       /\ answered' = answered + Len(posts)
       /\ ev' = [NoEvent EXCEPT !.op = "mainOnMessage", !.len = frames,
                                !.posted = posts # <<>>]
    /\ toMain' = Tail(toMain)
    /\ UNCHANGED <<channel_count, producer, current_buffer,
                   current_buffer_idx, audio_queue, requested_frames,
                   last_samples, output, fill, accepted, written, prevReal,
                   lastReal, reqSent, reqSinceChunk, renders, nhandled,
                   gameboy>>
    /\ UNCHANGED saveVars
    /\ UNCHANGED joypadVars

\* setGameboy(gameboy) of useGameboy, once wasm is initialised and the ROM
\* loaded; until then getNextFrameAudio throws.
SetGameboy ==
    /\ ~gameboy
    /\ gameboy' = TRUE
    /\ ev' = [NoEvent EXCEPT !.op = "setGameboy"]
    /\ UNCHANGED <<channel_count, producer, current_buffer,
                   current_buffer_idx, audio_queue, requested_frames,
                   last_samples, toWorklet, toMain, output, fill, nsent,
                   accepted, written, prevReal, lastReal, reqSent, answered,
                   reqSinceChunk, renders, nhandled>>
    /\ UNCHANGED saveVars
    /\ UNCHANGED joypadVars

\* A message on the worklet's port that is not a chunk message: of another
\* type, or of type 'queue' with `payload: undefined`.
PostOther(type) ==
    /\ nsent < MaxSent
    /\ toWorklet' = Append(toWorklet, [type |-> type, payload |-> NoPayload])
    /\ nsent' = nsent + 1
    /\ ev' = [NoEvent EXCEPT !.op = "postOther", !.queue = type = "queue"]
    /\ UNCHANGED <<channel_count, producer, current_buffer,
                   current_buffer_idx, audio_queue, requested_frames,
                   last_samples, toMain, output, fill, accepted, written,
                   prevReal, lastReal, reqSent, answered, reqSinceChunk,
                   renders, nhandled, gameboy>>
    /\ UNCHANGED saveVars
    /\ UNCHANGED joypadVars

\* ------------------------------------------------------------ save database
\* The outcome of load_ram: none yet, rejected, or resolved with a ram.
NotLoaded == [state |-> "none", ram |-> <<>>]

\* The identifiers (game titles) and the rams (Uint8Array) of a run.
Identifiers == {"title", "other"}
Bytes == {0, 255}
RECURSIVE RamsOfLen(_)
RamsOfLen(n) ==
    IF n = 0 THEN {<<>>}
    ELSE {Append(ram, b) : ram \in RamsOfLen(n - 1), b \in Bytes}
Rams == UNION {RamsOfLen(n) : n \in 0..MaxRamLen}

\* `request.result` of a get that finds no record.
NoRecord == [identifier |-> "", ram |-> <<Undefined>>]

\* `objectStore.put(record)` on a store with keyPath 'identifier': the record
\* replaces the one stored under the same key.
PutKeepsFirst(store, record) ==
    IF \E r \in store : r.identifier = record.identifier
    THEN store
    ELSE store \cup {record}

Put(store, record) ==
    {r \in store : r.identifier # record.identifier} \cup {record}

\* `objectStore.get(identifier)`.
Get(store, identifier) ==
    IF \E r \in store : r.identifier = identifier
    THEN CHOOSE r \in store : r.identifier = identifier
    ELSE NoRecord

\* load_ram's onsuccess: `if (request.result) resolve(request.result.ram)
\* else reject()`; a record is an object and so truthy whatever its ram.
Settle(result) ==
    IF result # NoRecord
    THEN [state |-> "resolved", ram |-> result.ram]
    ELSE [state |-> "rejected", ram |-> <<>>]

\* A call of save_ram: it opens the database and queues a readwrite
\* transaction with a put request.  Requests on the one store run in the
\* order their transactions were created.
save_ram(identifier, ram) ==
    /\ Len(pending) + Len(history) < MaxCalls
    /\ pending' = Append(pending, [kind |-> "save",
                                   identifier |-> identifier, ram |-> ram])
    /\ ev' = [NoEvent EXCEPT !.op = "save_ram"]
    /\ UNCHANGED <<saves, loaded, history>>
    /\ UNCHANGED audioVars
    /\ UNCHANGED joypadVars

\* A call of load_ram: a readonly transaction with a get request.
load_ram(identifier) ==
    /\ Len(pending) + Len(history) < MaxCalls
    /\ pending' = Append(pending, [kind |-> "load",
                                   identifier |-> identifier, ram |-> <<>>])
    /\ ev' = [NoEvent EXCEPT !.op = "load_ram"]
    /\ UNCHANGED <<saves, loaded, history>>
    /\ UNCHANGED audioVars
    /\ UNCHANGED joypadVars

\* `request.onsuccess` of the oldest pending call: the request has run and
\* the call's promise settles.
OnSuccess ==
    /\ pending # <<>>
    /\ LET call == Head(pending)
       IN /\ IF call.kind = "save"
             THEN /\ saves' = Put(saves, [identifier |-> call.identifier,
                                          ram |-> call.ram])
                  /\ UNCHANGED loaded
             ELSE /\ loaded' = Settle(Get(saves, call.identifier))
                  /\ UNCHANGED saves
          /\ history' = Append(history, call)
    /\ pending' = Tail(pending)
    /\ ev' = [NoEvent EXCEPT !.op = "onsuccess"]
    /\ UNCHANGED audioVars
    /\ UNCHANGED joypadVars

\* ------------------------------------------------------------------- joypad
\* enum JoypadInput: A = 0 .. Down = 7.
JoypadInput == 0..7

initialState == [pressed |-> Undefined, released |-> Undefined,
                 current |-> {}]

\* The types of the actions dispatched to the store.
ActionTypes == {"inputPressed", "inputReleased", "@@INIT"}

\* The payloads of the actions of a type: inputPressed(input) and
\* inputReleased(input) carry an input, the store's own action nothing.
Payloads(type) ==
    IF type \in {"inputPressed", "inputReleased"} THEN JoypadInput
    ELSE {Undefined}

\* joypadReducer(state, action); `current` is an immutable Set.
joypadReducerNeverDeletes(state, action) ==
    CASE action.type = "inputPressed" ->
           [pressed |-> action.payload,
            released |-> IF action.payload = state.released THEN Undefined
                         ELSE state.released,
            current |-> state.current \cup {action.payload}]
      [] action.type = "inputReleased" ->
           [pressed |-> IF action.payload = state.pressed THEN Undefined
                        ELSE state.pressed,
            released |-> action.payload,
            current |-> state.current]
      [] OTHER -> state

joypadReducerKeepsPressed(state, action) ==
    CASE action.type = "inputPressed" ->
           [pressed |-> action.payload,
            released |-> IF action.payload = state.released THEN Undefined
                         ELSE state.released,
            current |-> state.current \cup {action.payload}]
      [] action.type = "inputReleased" ->
           [pressed |-> state.pressed,
            released |-> action.payload,
            current |-> state.current \ {action.payload}]
      [] OTHER -> state

joypadReducerKeepsReleased(state, action) ==
    CASE action.type = "inputPressed" ->
           [pressed |-> action.payload,
            released |-> state.released,
            current |-> state.current \cup {action.payload}]
      [] action.type = "inputReleased" ->
           [pressed |-> IF action.payload = state.pressed THEN Undefined
                        ELSE state.pressed,
            released |-> action.payload,
            current |-> state.current \ {action.payload}]
      [] OTHER -> state

joypadReducer(state, action) ==
    CASE action.type = "inputPressed" ->
           [pressed |-> action.payload,
            released |-> IF action.payload = state.released THEN Undefined
                         ELSE state.released,
            current |-> state.current \cup {action.payload}]
      [] action.type = "inputReleased" ->
           [pressed |-> IF action.payload = state.pressed THEN Undefined
                        ELSE state.pressed,
            released |-> action.payload,
            current |-> state.current \ {action.payload}]
      [] OTHER -> state

\* The effects of Main after a render in which the store went from prev to
\* next: each runs when the field it is keyed on has changed, and forwards
\* the field to the emulator if the field is set and the emulator exists.
PressEffect(prev, next, defined) ==
    IF next.pressed # prev.pressed /\ next.pressed # Undefined /\ defined
    THEN <<[call |-> "press_key", key |-> next.pressed]>>
    ELSE <<>>

ReleaseEffect(prev, next, defined) ==
    IF next.released # prev.released /\ next.released # Undefined /\ defined
    THEN <<[call |-> "release_key", key |-> next.released]>>
    ELSE <<>>

\* dispatch(action) on the store from a key event, and the render and the
\* effects of Main that follow it before the next event is handled.
Dispatch(type, payload) ==
    /\ joypad' = joypadReducer(joypad, [type |-> type, payload |-> payload])
    /\ latest' = IF type \in {"inputPressed", "inputReleased"}
                 THEN [latest EXCEPT ![payload] = type]
                 ELSE latest
    /\ ev' = [NoEvent EXCEPT
                !.op = type,
                !.after = IF type \in {"inputPressed", "inputReleased"}
                          THEN latest[payload]
                          ELSE "none",
                !.calls = PressEffect(joypad, joypad', gameboy)
                          \o ReleaseEffect(joypad, joypad', gameboy)]
    /\ UNCHANGED audioVars
    /\ UNCHANGED saveVars

\* ------------------------------------------------------------ specification
\* The queue after the push version has posted n one-frame chunks and the
\* worklet has handled them, before the first render call.
Queued(n, channels) == [k \in 1..n |-> Chunk(k, 1, channels)]

\* The state after the constructor; with the push version the audio context
\* may start rendering only after Prefill frames of audio have been queued.
Constructed ==
    /\ channel_count \in {1, 2}
    /\ producer \in {"push", "pull"}
    /\ \E n \in {0, Prefill} :
        /\ n > 0 => producer = "push"
        /\ audio_queue = Queued(n, channel_count)
        /\ accepted = Concat(Queued(n, channel_count))
        /\ nhandled = n
    /\ current_buffer = <<>>
    /\ current_buffer_idx = 0
    /\ requested_frames = 0
    /\ last_samples = [c \in 1..channel_count |-> 0]
    /\ toWorklet = <<>>
    /\ toMain = <<>>
    /\ output = [c \in 1..channel_count |-> <<>>]
    /\ fill = <<>>
    /\ nsent = 0
    /\ written = <<>>
    /\ prevReal = [c \in 1..channel_count |-> 0]
    /\ lastReal = [c \in 1..channel_count |-> 0]
    /\ reqSent = 0
    /\ answered = 0
    /\ reqSinceChunk = 0
    /\ renders = 0
    /\ ev = NoEvent
    /\ saves = {}
    /\ loaded = NotLoaded
    /\ pending = <<>>
    /\ history = <<>>
    /\ joypad = initialState
    /\ latest = [input \in JoypadInput |-> "none"]

\* The emulator exists before the audio node asks for audio.
Init == Constructed /\ gameboy = TRUE

Next ==
    \/ \E length \in 0..MaxBlockLen : Process(length, length)
    \/ OnMessage
    \/ \E frames \in 0..MaxFrames : QueueAudio(frames)
    \/ MainLog
    \/ \E frames \in 0..MaxFrames : MainOnMessage(frames)

Spec == Init /\ [][Next]_vars

\* ------------------------------------------------------------------- faults
\* The pull version from the moment the audio node exists, with everything
\* that can go wrong around the worklet: the emulator not there yet, a host
\* block with channels of different lengths, messages that are not chunks.
InitFaults ==
    /\ Constructed
    /\ producer = "pull"
    /\ gameboy = FALSE

NextFaults ==
    \/ \E len0, len1 \in 0..MaxBlockLen : Process(len0, len1)
    \/ OnMessage
    \/ \E frames \in 0..MaxFrames : MainOnMessage(frames)
    \/ SetGameboy
    \/ \E type \in {"queue", "other"} : PostOther(type)

SpecFaults == InitFaults /\ [][NextFaults]_vars

\* ---------------------------------------------------------------- scenarios
\* The chunks of the scenarios of the specification's testable properties:
\* a mono chunk of 10 zeros then one of 10 ones; a stereo chunk of k frames
\* [L0, R0, ..., Lk-1, Rk-1] with every sample distinct.
TenZeros == [j \in 1..10 |-> 0]
TenOnes == [j \in 1..10 |-> 1]

ScenarioChunks(channels) ==
    IF channels = 1 THEN {<<TenZeros, TenOnes>>}
    ELSE {<<Chunk(1, k, 2)>> : k \in 1..MaxInterleave}

\* Block lengths of the scenarios: none, one slot, part of a chunk, a whole
\* chunk, across two chunks, both chunks, all 25 slots.
ScenarioLengths == {0, 1, 3, 4, 5, 10, 11, 20, 25}

\* The state after the constructor and after queueAudio has posted the
\* chunks of a scenario.
InitScenario ==
    /\ channel_count \in {1, 2}
    /\ producer = "push"
    /\ \E chunks \in ScenarioChunks(channel_count) :
        /\ toWorklet = [k \in 1..Len(chunks) |->
                          [type |-> "queue", payload |-> chunks[k]]]
        /\ nsent = Len(chunks)
    /\ audio_queue = <<>>
    /\ accepted = <<>>
    /\ nhandled = 0
    /\ current_buffer = <<>>
    /\ current_buffer_idx = 0
    /\ requested_frames = 0
    /\ last_samples = [c \in 1..channel_count |-> 0]
    /\ toMain = <<>>
    /\ output = [c \in 1..channel_count |-> <<>>]
    /\ fill = <<>>
    /\ written = <<>>
    /\ prevReal = [c \in 1..channel_count |-> 0]
    /\ lastReal = [c \in 1..channel_count |-> 0]
    /\ reqSent = 0
    /\ answered = 0
    /\ reqSinceChunk = 0
    /\ renders = 0
    /\ ev = NoEvent
    /\ gameboy = TRUE
    /\ saves = {}
    /\ loaded = NotLoaded
    /\ pending = <<>>
    /\ history = <<>>
    /\ joypad = initialState
    /\ latest = [input \in JoypadInput |-> "none"]

\* The chunks are enqueued, then slots are rendered with no chunk arriving.
NextScenario ==
    \/ OnMessage
    \/ /\ toWorklet = <<>>
       /\ \E length \in ScenarioLengths : Process(length, length)

SpecScenario == InitScenario /\ [][NextScenario]_vars

\* -------------------------------------------------------------------- saves
\* The save database, used while the audio pipeline is idle.
InitSaves ==
    /\ Init
    /\ channel_count = 2
    /\ producer = "pull"

NextSaves ==
    \/ \E identifier \in Identifiers, ram \in Rams : save_ram(identifier, ram)
    \/ \E identifier \in Identifiers : load_ram(identifier)
    \/ OnSuccess

SpecSaves == InitSaves /\ [][NextSaves]_vars

\* ----------------------------------------------------------------- liveness
\* The pull version with an emulator, under the scheduling the platform
\* gives: the audio context keeps calling process() and each port keeps
\* delivering the messages posted to it.
InitLive ==
    /\ Init
    /\ producer = "pull"

NextLive ==
    \/ \E length \in 0..MaxBlockLen : Process(length, length)
    \/ OnMessage
    \/ \E frames \in 0..MaxFrames : MainOnMessage(frames)

SpecLive ==
    /\ InitLive
    /\ [][NextLive]_vars
    /\ WF_vars(\E length \in 0..MaxBlockLen : Process(length, length))
    /\ WF_vars(OnMessage)
    /\ WF_vars(\E frames \in 0..MaxFrames : MainOnMessage(frames))

\* ---------------------------------------------------------- prompt producer
\* The pull version with a producer that is prompt and generous: a request
\* is answered, and the chunk delivered, before the next render call, and a
\* chunk holds at least as many frames as the largest output block.
InitPrompt ==
    /\ Init
    /\ producer = "pull"

NextPrompt ==
    \/ /\ toMain = <<>>
       /\ toWorklet = <<>>
       /\ \E length \in 0..MaxBlockLen : Process(length, length)
    \/ OnMessage
    \/ \E frames \in MaxBlockLen..(MaxBlockLen + MaxFrames) :
          MainOnMessage(frames)

SpecPrompt == InitPrompt /\ [][NextPrompt]_vars

\* ------------------------------------------------------------ joypad store
\* The redux store of the joypad, used while the audio pipeline is idle.
InitJoypad ==
    /\ Init
    /\ channel_count = 2
    /\ producer = "pull"

NextJoypad ==
    \E type \in ActionTypes :
        \E payload \in Payloads(type) : Dispatch(type, payload)

SpecJoypad == InitJoypad /\ [][NextJoypad]_vars

\* ------------------------------------------------------------------- claims
\* What is left to play: the rest of the chunk in progress, then the queue.
Remaining ==
    (IF current_buffer = <<>> THEN <<>>
     ELSE SubSeq(current_buffer[1], current_buffer_idx + 1,
                 Len(current_buffer[1])))
    \o Concat(audio_queue)

\* A step of process(), of the worklet's onmessage on a chunk message.
ProcessStep == renders' = renders + 1
ChunkStep == nhandled' = nhandled + 1

\* Slots of the latest output block.
Slots == 1..Len(fill)

\* C1: the chunk-derived samples written so far, followed by what is left to
\* play, are the samples of the accepted chunks in arrival order: nothing
\* skipped, duplicated, reordered or added.
C1_OrderPreservation == written \o Remaining = accepted

\* C2: the queue holds between 0 and 60 chunks in every reachable state,
\* also with a producer that posts chunks nobody asked for.
C2_DepthBound == Len(audio_queue) >= 0 /\ Len(audio_queue) <= 60

C2_Witness ==
    /\ producer = "push"
    /\ Len(audio_queue) = 60
    /\ ev.op = "onmessage" /\ ev.queue /\ ~ev.dropped

\* C3: a chunk message handled while the queue holds 60 chunks leaves the
\* queue as it was.
C3_OverflowDrop ==
    [][(ChunkStep /\ Len(audio_queue) = 60) => audio_queue' = audio_queue]_vars

C3_Witness == ev.op = "onmessage" /\ ev.dropped /\ Len(audio_queue) = 60

\* C4: requested_frames is 0 or 1; it goes up only in a render call that
\* posts a refill request and down only when a chunk message is handled.
C4_CounterLatch ==
    /\ [](requested_frames \in {0, 1})
    /\ [][/\ requested_frames' > requested_frames
             => ProcessStep /\ Len(toMain') = Len(toMain) + 1
          /\ requested_frames' < requested_frames => ChunkStep]_vars

C4_Witness ==
    /\ reqSent >= 2
    /\ requested_frames = 1
    /\ ev.op = "process" /\ ev.request

\* C5: render calls on an empty queue with no chunk message in between post
\* one refill request, at the first of them; and no more than one request
\* is posted between two chunk messages.
C5_SingleFlight ==
    /\ [](reqSinceChunk <= 1)
    /\ [][(ProcessStep /\ audio_queue = <<>>)
          => /\ reqSent' - reqSent = IF requested_frames = 0 THEN 1 ELSE 0
             /\ requested_frames' = 1]_vars

C5_Witness ==
    /\ nhandled = 0
    /\ renders >= 2
    /\ reqSent = 1
    /\ ev.op = "process" /\ ~ev.request

\* Refill requests posted and not answered by a chunk of the main thread.
InFlight == reqSent - answered

\* C6 as stated: at most one refill request is unanswered, whatever the
\* producer does.
C6_InFlightCapAnyProducer == InFlight <= 1

\* C6 amended: at most one refill request is unanswered when chunks are
\* posted only in answer to requests (the pull version).
C6_InFlightCapPull == producer = "pull" => InFlight <= 1

C6_Witness ==
    /\ producer = "pull"
    /\ reqSent >= 2
    /\ InFlight = 1
    /\ toMain # <<>>

\* C7: handling a chunk message leaves requested_frames at 0, and the first
\* render call afterwards that ends with fewer than 3 queued chunks posts a
\* refill request.
C7_BackpressureRelease ==
    [][/\ ChunkStep => requested_frames' = 0
       /\ (ProcessStep /\ nhandled > 0 /\ reqSinceChunk = 0
           /\ Len(audio_queue') < 3)
          => reqSent' = reqSent + 1 /\ requested_frames' = 1]_vars

C7_Witness ==
    /\ reqSent >= 2
    /\ renders >= 3
    /\ reqSinceChunk = 1
    /\ ev.op = "process" /\ ev.request /\ ev.len > 0

\* C8: a render call posts a refill request exactly when, after the block
\* is filled, fewer than 3 chunks are queued (the chunk in progress not
\* counted) and requested_frames was 0; it then sets requested_frames to 1
\* and posts one request only.
C8_RefillTrigger ==
    [][ProcessStep
       => LET posted == reqSent' - reqSent IN
          /\ posted \in {0, 1}
          /\ Len(toMain') = Len(toMain) + posted
          /\ posted = 1 <=> (Len(audio_queue') < 3 /\ requested_frames = 0)
          /\ posted = 1 => requested_frames' = 1]_vars

C8_Witness ==
    /\ ev.op = "process" /\ ev.request
    /\ current_buffer # <<>>
    /\ Len(audio_queue) = 2

MostRecentReal(c, i) ==
    LET before == {j \in 1..(i - 1) : fill[j] = "chunk"} IN
    IF before = {} THEN prevReal[c]
    ELSE output[c][CHOOSE j \in before : \A k \in before : k <= j]

\* C10: every sustained slot carries, per channel, the latest chunk-derived
\* sample written before it (zero if there is none), also when the queue
\* runs empty inside a block.
C10_SustainLastReal ==
    \A c \in 1..channel_count :
        \A i \in Slots :
            fill[i] = "sustain" => output[c][i] = MostRecentReal(c, i)

\* The chunk-derived slots among the first i slots of the latest block, and
\* the place of chunk-derived slot i among all chunk-derived slots so far.
ChunkRank(i) == Cardinality({j \in 1..i : fill[j] = "chunk"})
FramePos(i) ==
    Len(written) \div channel_count - ChunkRank(Len(fill)) + ChunkRank(i)

\* Every chunk-derived slot of the latest block carries, per channel, the
\* frame of `samples` at its place.
CarriesFrames(samples) ==
    \A i \in Slots :
        fill[i] = "chunk"
        => \A c \in 1..channel_count :
              output[c][i] = At(samples, (FramePos(i) - 1) * channel_count
                                         + c - 1)

\* The scenario of one stereo chunk of k frames, all enqueued.
InterleaveScenario ==
    /\ channel_count = 2
    /\ nhandled = 1
    /\ accepted = Chunk(1, Len(accepted) \div 2, 2)

\* C11: a stereo chunk [L0,R0,...] of k >= 1 frames is played on k
\* consecutive slots, slot i carrying (Li, Ri) on (channel 0, channel 1);
\* while it is in progress the cursor is at twice the slots played, and it
\* is retired (no chunk in progress, cursor 0) after exactly k slots.
C11_StereoInterleave ==
    InterleaveScenario
    => LET k == Len(accepted) \div 2
           n == Len(written) \div 2
       IN  /\ n <= k
           /\ written = SubSeq(accepted, 1, 2 * n)
           /\ CarriesFrames(accepted)
           /\ \A i \in Slots : \A j \in Slots :
                 (i < j /\ fill[i] = "sustain") => fill[j] = "sustain"
           /\ (0 < n /\ n < k)
              => current_buffer = <<accepted>> /\ current_buffer_idx = 2 * n
           /\ n = k => current_buffer = <<>> /\ current_buffer_idx = 0
           /\ n < k => \A i \in Slots : fill[i] = "chunk"

C11_Witness ==
    /\ InterleaveScenario
    /\ accepted = <<11, 12, 13, 14, 15, 16>>
    /\ fill = <<"chunk", "chunk", "chunk">>
    /\ output = <<<<11, 13, 15>>, <<12, 14, 16>>>>
    /\ current_buffer = <<>>
    /\ current_buffer_idx = 0

\* The scenario of the two mono chunks, both enqueued.
TwoChunkScenario ==
    /\ channel_count = 1
    /\ nhandled = 2
    /\ accepted = TenZeros \o TenOnes

\* C12: with a mono chunk of 10 zeros and one of 10 ones enqueued, the slots
\* rendered carry ten 0, then ten 1, then the sustained 1, in one render
\* call or in several.
C12_ScenarioOutput ==
    TwoChunkScenario
    => /\ written = SubSeq(accepted, 1, Len(written))
       /\ CarriesFrames(accepted)
       /\ \A i \in Slots :
             fill[i] = "sustain"
             => /\ output[1][i] = 1
                /\ Len(written) = 20
                /\ \A j \in Slots : i < j => fill[j] = "sustain"

C12_Witness ==
    /\ TwoChunkScenario
    /\ Len(fill) = 25
    /\ \A i \in 1..10 : output[1][i] = 0 /\ fill[i] = "chunk"
    /\ \A i \in 11..20 : output[1][i] = 1 /\ fill[i] = "chunk"
    /\ \A i \in 21..25 : output[1][i] = 1 /\ fill[i] = "sustain"

\* C13 as stated: in that scenario no refill request is posted before slot
\* 21, that is before the 20 chunk-derived slots have been rendered.
C13_RequestAtSlot21 ==
    TwoChunkScenario => (reqSent > 0 => Len(written) = 20)

\* C13 amended: in that scenario the refill request is posted at the end of
\* the first render call, however few slots it has, and it is the only one.
C13_RequestAtFirstRender ==
    TwoChunkScenario => reqSent = IF renders > 0 THEN 1 ELSE 0

C13_Witness ==
    /\ TwoChunkScenario
    /\ renders = 1
    /\ Len(written) = 4
    /\ Len(audio_queue) = 1
    /\ reqSent = 1
    /\ ev.op = "process" /\ ev.request

\* The processor's own fields.
processorVars == <<current_buffer, current_buffer_idx, audio_queue,
                   last_samples, requested_frames>>

\* A step of the worklet's onmessage, of the main thread's onmessage.
WorkletStep == toWorklet # <<>> /\ toWorklet' = Tail(toWorklet)
MainStep == toMain # <<>> /\ toMain' = Tail(toMain)

\* C14: a render call on channels of different lengths throws at entry:
\* it does not return, the processor's fields are as before, no slot is
\* written and no refill request is posted.
C14_LengthMismatch ==
    [][(ev'.op = "process" /\ ev'.mismatch)
       => /\ ~ev'.returned
          /\ UNCHANGED processorVars
          /\ UNCHANGED <<output, fill, toMain, reqSent>>]_vars

C14_Witness ==
    /\ ev.op = "process" /\ ev.mismatch /\ ~ev.returned
    /\ current_buffer # <<>>
    /\ Len(audio_queue) > 0
    /\ requested_frames = 0

\* C15: a render call on channels of equal length writes every slot of
\* every channel and returns true, in every state.
C15_FillsAndReturnsTrue ==
    [][ProcessStep
       => /\ ev'.returned
          /\ Len(fill') = ev'.len
          /\ \A c \in 1..channel_count : Len(output'[c]) = ev'.len]_vars

C15_Witness ==
    /\ ev.op = "process" /\ ev.returned /\ ev.len = 2
    /\ fill = <<"chunk", "sustain">>
    /\ requested_frames = 1
    /\ ~ev.request

\* C16: a message that is not a well-formed chunk message (another type, or
\* type 'queue' without a payload) leaves the processor's fields as they
\* were.
C16_MalformedDiscarded ==
    [][(WorkletStep /\ Head(toWorklet).payload = NoPayload)
       => UNCHANGED processorVars]_vars

\* C17: while no chunk message is handled, an outstanding request stays
\* outstanding and no further request is posted; render calls go on
\* returning true and, with nothing left to play, fill the block with the
\* Last-Sample State.
C17_SilentProducer ==
    /\ [][(requested_frames = 1 /\ ~ChunkStep)
          => requested_frames' = 1 /\ reqSent' = reqSent]_vars
    /\ [][(ProcessStep /\ requested_frames = 1)
          => /\ ev'.returned
             /\ (audio_queue = <<>> /\ current_buffer = <<>>)
                => \A i \in 1..Len(fill') :
                     /\ fill'[i] = "sustain"
                     /\ \A c \in 1..channel_count :
                          output'[c][i] = StoreFloat32(last_samples[c])]_vars

C17_Witness ==
    /\ ~gameboy
    /\ reqSent = 1
    /\ requested_frames = 1
    /\ toMain = <<>>
    /\ renders = 3
    /\ ev.op = "process" /\ ev.len = 2 /\ ~ev.request
    /\ fill = <<"sustain", "sustain">>

\* C18 as stated: the main thread posts exactly one chunk message for each
\* refill request it receives.
C18_OneReplyPerRequest ==
    [][(MainStep /\ Head(toMain).type = "get-audio")
       => answered' = answered + 1]_vars

\* C18 amended: the main thread posts one chunk message for a refill
\* request when the emulator exists and none when it does not, none for
\* any other message, and never more chunks than it received requests.
C18_AtMostOneReply ==
    /\ [](answered <= reqSent - Len(toMain))
    /\ [][MainStep
          => answered' - answered =
                IF Head(toMain).type = "get-audio" /\ gameboy THEN 1
                ELSE 0]_vars

C18_Witness ==
    /\ ev.op = "mainOnMessage" /\ ev.posted
    /\ answered = 2
    /\ reqSent = 2
    /\ toMain = <<>>

\* The save_ram calls under an identifier that have resolved, oldest first.
SavedUnder(identifier) ==
    SelectSeq(history,
              LAMBDA call : call.kind = "save" /\ call.identifier = identifier)

\* The step in which a pending load_ram settles.
LoadSettles ==
    /\ pending # <<>>
    /\ Head(pending).kind = "load"
    /\ pending' = Tail(pending)

\* C19: a load_ram(identifier) that settles after a save_ram under that
\* identifier has resolved, resolves with the ram of the most recent such
\* save, whatever was saved under other identifiers; and a save that
\* resolves leaves the records of the other identifiers as they were.
C19_SaveRoundTrip ==
    /\ [][LoadSettles
          => LET saved == SavedUnder(Head(pending).identifier)
             IN saved # <<>>
                => loaded' = [state |-> "resolved",
                              ram |-> saved[Len(saved)].ram]]_vars
    /\ [][(pending # <<>> /\ pending' = Tail(pending)
           /\ Head(pending).kind = "save")
          => \A identifier \in Identifiers \ {Head(pending).identifier} :
               Get(saves', identifier) = Get(saves, identifier)]_vars

C19_Witness ==
    /\ history = <<[kind |-> "save", identifier |-> "title", ram |-> <<0>>],
                   [kind |-> "save", identifier |-> "title", ram |-> <<255>>],
                   [kind |-> "save", identifier |-> "other", ram |-> <<>>],
                   [kind |-> "load", identifier |-> "title", ram |-> <<>>]>>
    /\ loaded = [state |-> "resolved", ram |-> <<255>>]

\* The run can still render a block and post a chunk.
CanGoOn == renders < MaxRenders /\ nsent < MaxSent

\* C20: while render calls keep occurring and requests and chunks keep
\* being delivered and answered, a queue depth below 3 leads to a further
\* chunk being appended to the queue, and the depth does not stay below 3
\* with no request outstanding.
C20_RefillLiveness ==
    /\ \A n \in 0..MaxSent :
         (Len(audio_queue) < LowWater /\ CanGoOn /\ nhandled = n)
            ~> (nhandled > n /\ ev.op = "onmessage" /\ ~ev.dropped)
    /\ []<>~(Len(audio_queue) < LowWater /\ requested_frames = 0
             /\ renders < MaxRenders)

C20_Witness ==
    /\ ev.op = "onmessage" /\ ev.queue /\ ~ev.dropped
    /\ nhandled = 2
    /\ reqSent = 2
    /\ requested_frames = 0
    /\ Len(audio_queue) < LowWater
    /\ CanGoOn

\* The samples of the chunk in progress.
InProgress == current_buffer[1]

\* C21: while a chunk is in progress the cursor offset lies inside it, with
\* no chunk in progress it is 0, and every sample read for a chunk-derived
\* slot was read inside its chunk (a read outside yields undefined, which the
\* output block stores as NaN).  The chunks of a run all have a length that
\* is a multiple of the channel count, zero included.
C21_CursorInvariant ==
    /\ current_buffer # <<>>
          => current_buffer_idx >= 0 /\ current_buffer_idx < Len(InProgress)
    /\ current_buffer = <<>> => current_buffer_idx = 0
    /\ \A i \in 1..Len(written) : written[i] # NaN

\* The chunks left to play: the rest of the chunk in progress, then the
\* queued chunks.
Parts ==
    (IF current_buffer = <<>> THEN <<>>
     ELSE <<SubSeq(InProgress, current_buffer_idx + 1, Len(InProgress))>>)
    \o audio_queue

\* The slots a chunk takes: one per frame, and one for a zero-length chunk,
\* which is retired at the slot that dequeues it.
SlotsOf(chunk) ==
    IF chunk = <<>> THEN 1
    ELSE (Len(chunk) + channel_count - 1) \div channel_count

\* The slots the first k chunks left to play take.
RECURSIVE SlotsUpTo(_, _)
SlotsUpTo(parts, k) ==
    IF k = 0 THEN 0 ELSE SlotsUpTo(parts, k - 1) + SlotsOf(parts[k])

\* C22: in a render call a slot is filled with the Last-Sample State only
\* after everything left to play has been played (no chunk in progress and
\* an empty queue at that slot); and the slot after the one that retires a
\* chunk, with a chunk queued behind it, is chunk-derived and carries what
\* the head chunk holds at offset 0.
C22_FillerOnlyOnUnderrun ==
    [][ProcessStep
       => LET parts == Parts
              avail == SlotsUpTo(parts, Len(parts))
          IN  /\ \A i \in 1..Len(fill') : fill'[i] = "sustain" => i > avail
              /\ \A k \in 1..(Len(parts) - 1) :
                   LET at == SlotsUpTo(parts, k)
                   IN  at < Len(fill')
                       => /\ fill'[at + 1] = "chunk"
                          /\ output'[1][at + 1]
                               = StoreFloat32(At(parts[k + 1], 0))]_vars

C22_Witness ==
    /\ ev.op = "process" /\ ev.len = 2
    /\ fill = <<"chunk", "chunk">>
    /\ output[1] = <<11, 21>>
    /\ current_buffer = <<>>
    /\ Len(audio_queue) = Prefill - 2

\* C23: after a render call on a block of at least one slot, the Last-Sample
\* State of each channel is the sample written to the last slot of that
\* channel.
C23_LastSampleIsFinalSlot ==
    [][(ProcessStep /\ ev'.len >= 1)
       => \A c \in 1..channel_count :
            last_samples'[c] = output'[c][ev'.len]]_vars

\* C24: a render call is one step that returns after one pass over the
\* slots of its block (one entry of fill per slot), whether or not a request
\* is outstanding; the step takes nothing from the worklet's port and works
\* the same when the producer has sent nothing at all.
C24_RenderNeverWaits ==
    [][(ev'.op = "process" /\ ~ev'.mismatch)
       => /\ ProcessStep
          /\ ev'.returned
          /\ Len(fill') = ev'.len
          /\ toWorklet' = toWorklet
          /\ nhandled' = nhandled
          /\ nsent' = nsent]_vars

C24_Witness ==
    /\ ~gameboy
    /\ nsent = 0
    /\ nhandled = 0
    /\ toWorklet = <<>>
    /\ requested_frames = 1
    /\ renders = 2
    /\ ev.op = "process" /\ ev.returned /\ ev.len = 2
    /\ Len(fill) = 2

C26_NoUnderrunWhenPrompt ==
    [][(ProcessStep /\ nhandled >= 1)
       => \A i \in 1..Len(fill') : fill'[i] = "chunk"]_vars

C26_Witness ==
    /\ ev.op = "process" /\ ev.len = MaxBlockLen
    /\ renders = 3
    /\ nhandled = 2
    /\ fill = <<"chunk", "chunk">>
    /\ current_buffer = <<>>
    /\ audio_queue = <<>>

\* Rendering a + b slots from the current state in one render call, and in
\* two render calls of a and of b slots with no chunk message in between.
InOneCall(a, b) == Fill(Renderer, a + b)
FirstCall(a, b) == Fill(Renderer, a)
SecondCall(a, b) == Fill(FirstCall(a, b), b)

\* C27: from every reachable state, one render call of a + b slots and two
\* render calls of a and b slots write the same samples to each channel and
\* leave the same queue, chunk in progress, cursor offset and Last-Sample
\* State.
C27_PartitionIndependence ==
    \A a, b \in 0..MaxBlockLen :
        a + b <= MaxBlockLen
        => /\ \A c \in 1..channel_count :
                InOneCall(a, b).channels[c]
                  = FirstCall(a, b).channels[c] \o SecondCall(a, b).channels[c]
           /\ InOneCall(a, b).audio_queue = SecondCall(a, b).audio_queue
           /\ InOneCall(a, b).current_buffer = SecondCall(a, b).current_buffer
           /\ InOneCall(a, b).current_buffer_idx
                = SecondCall(a, b).current_buffer_idx
           /\ InOneCall(a, b).last_samples = SecondCall(a, b).last_samples

\* C28: handling a chunk message leaves the chunk in progress, the cursor
\* offset and the Last-Sample State as they were, keeps the chunks already
\* queued in place (the queue is as before, or as before with the payload
\* appended), changes requested_frames by at most taking it from 1 to 0,
\* and posts and writes nothing.
C28_ChunkMessageFrame ==
    [][ChunkStep
       => /\ UNCHANGED <<current_buffer, current_buffer_idx, last_samples>>
          /\ UNCHANGED <<toMain, output, fill, reqSent>>
          /\ \/ audio_queue' = audio_queue
             \/ audio_queue' = Append(audio_queue, Head(toWorklet).payload)
          /\ requested_frames' \in {requested_frames, requested_frames - 1}
          /\ requested_frames' >= 0]_vars

C28_Witness ==
    /\ ev.op = "onmessage" /\ ev.queue /\ ~ev.dropped
    /\ current_buffer # <<>>
    /\ current_buffer_idx > 0
    /\ Len(audio_queue) >= 2
    /\ requested_frames = 0
    /\ reqSent = 1

\* The samples of the chunks pushed on the queue so far.
AcceptedSamples == {accepted[i] : i \in 1..Len(accepted)}

\* C29: in every state the Last-Sample State of each channel is zero or a
\* sample of an accepted chunk, never undefined; and a render call on a
\* zero-length block leaves it as it was.
C29_LastSampleIsSample ==
    /\ [](\A c \in 1..channel_count :
             last_samples[c] \in {0} \cup AcceptedSamples)
    /\ [][(ProcessStep /\ ev'.len = 0) => last_samples' = last_samples]_vars

\* C30: `current` is the set of the inputs whose latest action among
\* inputPressed and inputReleased was inputPressed, and an action of another
\* type returns the state it was given.
C30_HeldSet ==
    /\ [](joypad.current
            = {input \in JoypadInput : latest[input] = "inputPressed"})
    /\ [][ev'.op \notin {"inputPressed", "inputReleased"}
          => joypad' = joypad]_vars

C30_Witness ==
    /\ joypad.current = {0, 7}
    /\ latest[0] = "inputPressed"
    /\ latest[4] = "inputReleased"
    /\ latest[7] = "inputPressed"
    /\ joypad.released = 4
    /\ ev.op = "@@INIT"

\* C31: `pressed` and `released` never name the same input; `pressed`, when
\* set, is a member of `current`; `released`, when set, is not.
C31_FieldInvariant ==
    /\ joypad.pressed # Undefined
          => /\ joypad.pressed \in joypad.current
             /\ joypad.pressed # joypad.released
    /\ joypad.released # Undefined => joypad.released \notin joypad.current

C31_Witness ==
    /\ joypad = [pressed |-> 0, released |-> 4, current |-> {0, 7}]
    /\ ev.op = "inputPressed"

\* The input of the inputPressed or inputReleased action of this step.
Acted(input) == latest'[input] # latest[input]

\* C32: an inputPressed(x) that follows an inputReleased(x) changes
\* `pressed`, to x, and the press effect of Main forwards press_key(x); an
\* inputReleased(x) that follows an inputPressed(x) changes `released`, to
\* x, and the release effect forwards release_key(x).
C32_NoLostEdge ==
    [][\A x \in JoypadInput :
         /\ (Acted(x) /\ latest[x] = "inputReleased")
               => /\ joypad'.pressed # joypad.pressed
                  /\ joypad'.pressed = x
                  /\ ev'.calls = <<[call |-> "press_key", key |-> x]>>
         /\ (Acted(x) /\ latest[x] = "inputPressed")
               => /\ joypad'.released # joypad.released
                  /\ joypad'.released = x
                  /\ [call |-> "release_key", key |-> x]
                       = ev'.calls[Len(ev'.calls)]]_vars

C32_Witness ==
    /\ ev.op = "inputPressed" /\ ev.after = "inputReleased"
    /\ joypad = [pressed |-> 0, released |-> 7, current |-> {0}]
    /\ latest[7] = "inputReleased"
    /\ ev.calls = <<[call |-> "press_key", key |-> 0]>>

====
